---- MODULE Spec2Model ----
(***************************************************************************)
(* BallSim-py: the scene document, its JSON codec and the editor state     *)
(* machines of the two pygame prototypes of the repository:                *)
(*   src/gemini_output.py  (class App:        startup menu, editor, run)   *)
(*   src/main.py           (class BallSimApp: menus, editor with paths)    *)
(*   src/ui_elements.py    (class ToggleButtonGroup of main.py's menu)     *)
(* A behaviour is one launch of one of the two programs.                   *)
(***************************************************************************)
EXTENDS Integers, Sequences, FiniteSets, TLC

VARIABLES
    program,            \* which file is launched: "gemini_output" or "main"
    \* ---- src/gemini_output.py, class App ----
    pc,                 \* where App.run is: the handler draining events, or ended
    file,               \* gemini_saved_scenes/my_test_scene.json on disk
    running,            \* App.running
    app_state,          \* App.app_state
    current_scene,      \* App.current_scene
    editor_tool,        \* App.editor_tool
    selected_object,    \* App.selected_object
    is_dragging_object, \* App.is_dragging_object
    is_panning,         \* App.is_panning
    pan_start_pos,      \* App.pan_start_pos
    camera_offset,      \* App.camera_offset
    mouse_pos,          \* App.mouse_pos, sampled once per frame in App.run
    \* ---- src/main.py, class BallSimApp ----
    m_running,          \* BallSimApp.running
    m_app_state,        \* BallSimApp.app_state
    scene,              \* BallSimApp.scene
    is_dragging_path,   \* BallSimApp.is_dragging_path
    drag_ball,          \* BallSimApp.drag_ball
    attr_toggles,       \* BallSimApp.attr_toggles
    attr_inputs,        \* BallSimApp.attr_inputs
    \* ---- a function of the code applied on its own ----
    call                \* the application: its argument and, once made, its
                        \* result

gvars == <<pc, file, running, app_state, current_scene, editor_tool,
           selected_object, is_dragging_object, is_panning, pan_start_pos,
           camera_offset, mouse_pos>>

mvars == <<m_running, m_app_state, scene, is_dragging_path, drag_ball,
           attr_toggles, attr_inputs>>

vars == <<program, gvars, mvars, call>>

----------------------------------------------------------------------------
(* Bounds of the model *)

\* no placement once a scene holds this many balls
MaxBalls == 2
\* a pan step is taken only while the canvas origin stays this close to the
\* viewport's top-left corner
MaxPanDistance == 16
\* main.py: no ball is added once the next layer would exceed this
MaxLayer == 3
\* how many keys each dict of a scene file lacks at most
MaxMissing == 1
\* snap_to_grid is applied to the points with coordinates in
\* -MaxCoord..MaxCoord
MaxCoord == 80
\* no key adds a character to a text input that holds this many
MaxTextLen == 4

----------------------------------------------------------------------------
(* Python values *)

None == [none |-> TRUE]

Vector2(x, y) == <<x, y>>

VecAdd(a, b) == <<a[1] + b[1], a[2] + b[2]>>

VecSub(a, b) == <<a[1] - b[1], a[2] - b[2]>>

Min2(a, b) == IF a <= b THEN a ELSE b

\* the square of Vector2.distance_to
DistanceSquared(a, b) ==
    (a[1] - b[1]) * (a[1] - b[1]) + (a[2] - b[2]) * (a[2] - b[2])

\* pygame.Rect and Rect.collidepoint: the right and bottom edges are outside
Rect(x, y, w, h) == [x |-> x, y |-> y, w |-> w, h |-> h]

collidepoint(rect, p) ==
    /\ rect.x <= p[1] /\ p[1] < rect.x + rect.w
    /\ rect.y <= p[2] /\ p[2] < rect.y + rect.h

\* the outcome of a call: a returned value, or an exception raised
Return(v) == [exc |-> "none", value |-> v, partial |-> None]

Raise(e, built) == [exc |-> e, value |-> None, partial |-> built]

\* d.get(k, default), as settings.get("width", SCREEN_WIDTH) would read it
DictGetItem_default(d, k) ==
    IF k \in DOMAIN d THEN Return(d[k])
    ELSE IF k = "width" THEN Return(1280)
    ELSE Raise("KeyError", None)

\* d[k] on a dict
DictGetItem(d, k) ==
    IF k \in DOMAIN d THEN Return(d[k]) ELSE Raise("KeyError", None)

----------------------------------------------------------------------------
(* src/gemini_output.py: constants *)

SCREEN_WIDTH == 1280
SCREEN_HEIGHT == 720
TOOLBAR_WIDTH == 80
PROPERTIES_WIDTH == 240
FILE_MENU_HEIGHT == 40

CANVAS_RECT ==
    Rect(TOOLBAR_WIDTH, FILE_MENU_HEIGHT,
         SCREEN_WIDTH - TOOLBAR_WIDTH - PROPERTIES_WIDTH,
         SCREEN_HEIGHT - FILE_MENU_HEIGHT)

ui_elements ==
    [btn_new_scene   |-> Rect(50, 100, 200, 50),
     btn_load_scene  |-> Rect(50, 170, 200, 50),
     btn_save        |-> Rect(10, 5, 50, 30),
     btn_run         |-> Rect(70, 5, 50, 30),
     btn_tool_normal |-> Rect(10, FILE_MENU_HEIGHT + 10, 60, 40),
     btn_tool_ball   |-> Rect(10, FILE_MENU_HEIGHT + 60, 60, 40),
     btn_tool_vector |-> Rect(10, FILE_MENU_HEIGHT + 110, 60, 40)]

----------------------------------------------------------------------------
(* src/gemini_output.py: class Ball *)

Ball(position, velocity, radius, color, layer) ==
    [position |-> position, velocity |-> velocity, radius |-> radius,
     color_data |-> color, layer |-> layer]

\* a containment that leaves the boundary out
contains_point_strict(ball, point) ==
    /\ ball.radius >= 0
    /\ DistanceSquared(ball.position, point) < ball.radius * ball.radius

\* position.distance_to(point) <= radius, on integers: a distance is never
\* negative, so a negative radius contains nothing
contains_point(ball, point) ==
    /\ ball.radius >= 0
    /\ DistanceSquared(ball.position, point) <= ball.radius * ball.radius

Ball_to_dict(ball) ==
    [position |-> <<ball.position[1], ball.position[2]>>,
     velocity |-> <<ball.velocity[1], ball.velocity[2]>>,
     radius   |-> ball.radius,
     color    |-> ball.color_data,
     layer    |-> ball.layer]

\* the keys Ball.from_dict subscripts, in evaluation order
BallKeys == <<"position", "velocity", "radius", "color", "layer">>

\* a from_dict that reads position[0] for both coordinates
Ball_from_dict_x_twice(data) ==
    LET got == [i \in 1..Len(BallKeys) |-> DictGetItem(data, BallKeys[i])]
        bad == {i \in 1..Len(BallKeys) : got[i].exc # "none"}
    IN  IF bad # {}
        THEN Raise(got[CHOOSE i \in bad : \A j \in bad : i <= j].exc, None)
        ELSE Return(Ball(Vector2(got[1].value[1], got[1].value[1]),
                         Vector2(got[2].value[1], got[2].value[2]),
                         got[3].value, got[4].value, got[5].value))

Ball_from_dict(data) ==
    LET got == [i \in 1..Len(BallKeys) |-> DictGetItem(data, BallKeys[i])]
        bad == {i \in 1..Len(BallKeys) : got[i].exc # "none"}
    IN  IF bad # {}
        THEN Raise(got[CHOOSE i \in bad : \A j \in bad : i <= j].exc, None)
        ELSE Return(Ball(Vector2(got[1].value[1], got[1].value[2]),
                         Vector2(got[2].value[1], got[2].value[2]),
                         got[3].value, got[4].value, got[5].value))

----------------------------------------------------------------------------
(* src/gemini_output.py: class Scene *)

Scene(width, height, bg_color, framerate, color_space) ==
    [width |-> width, height |-> height, bg_color_data |-> bg_color,
     framerate |-> framerate, color_space |-> color_space, balls |-> <<>>]

\* Scene.add_ball: the ball is appended as it is, its layer untouched
add_ball(s, ball) == [s EXCEPT !.balls = Append(@, ball)]

\* sorted(balls, key=lambda b: b.layer, reverse=...) as the sequence of the
\* balls' indices.  Python's sort is stable, and stays stable under
\* reverse=True: balls of equal layer keep their list order in both.
SortsBefore(balls, i, j, reverse) ==
    IF reverse THEN balls[i].layer >= balls[j].layer
               ELSE balls[i].layer <= balls[j].layer

SortInsert(balls, order, k, reverse) ==
    LET n == Cardinality({j \in 1..Len(order) :
                            SortsBefore(balls, order[j], k, reverse)})
    IN  SubSeq(order, 1, n) \o <<k>> \o SubSeq(order, n + 1, Len(order))

RECURSIVE SortPrefix(_, _, _)
SortPrefix(balls, k, reverse) ==
    IF k = 0 THEN <<>>
    ELSE SortInsert(balls, SortPrefix(balls, k - 1, reverse), k, reverse)

sorted_by_layer(balls, reverse) == SortPrefix(balls, Len(balls), reverse)

\* a reference to a ball of the scene: its place in Scene.balls (the list
\* of gemini_output.py only ever grows)
BallRef(i) == [index |-> i]

\* Scene.get_ball_at_pos: the first ball, by layer descending, containing p
get_ball_at_pos(s, canvas_pos) ==
    LET order == sorted_by_layer(s.balls, TRUE)
        hits  == {j \in 1..Len(order) :
                    contains_point(s.balls[order[j]], canvas_pos)}
    IN  IF hits = {} THEN None
        ELSE BallRef(order[CHOOSE j \in hits : \A h \in hits : j <= h])

\* Scene.draw: the order in which the balls are painted (last is on top)
draw_order(s) == sorted_by_layer(s.balls, FALSE)

----------------------------------------------------------------------------
(* src/gemini_output.py: Scene.save_to_json and Scene.load_from_json *)

\* the scene file: absent, text that is no JSON, or a JSON document
MissingFile == [state |-> "missing"]

GarbageFile == [state |-> "garbage"]

JsonFile(doc) == [state |-> "json", doc |-> doc]

\* datetime.now().isoformat() at the moment of a save
Timestamps == {"2025-01-01T10:00:00", "2025-01-01T10:00:01"}

\* the dict save_to_json dumps
scene_data_of(s, now) ==
    [scene_settings |->
        [width            |-> s.width,
         height           |-> s.height,
         background_color |-> s.bg_color_data,
         framerate        |-> s.framerate,
         color_space      |-> s.color_space,
         last_accessed    |-> now],
     objects |->
        [balls |-> [i \in 1..Len(s.balls) |-> Ball_to_dict(s.balls[i])]]]

\* what a save can meet: the write succeeds; open() fails (the file is left
\* as it was); the write fails midway (open(.., 'w') has truncated the file).
\* Both failures are caught and printed.
SaveOutcomes == {"ok", "open_fails", "write_fails"}

\* a save that, when the write fails, tries again until it succeeds
save_to_json_retrying(s, f, now, io) ==
    CASE io = "ok"          -> JsonFile(scene_data_of(s, now))
      [] io = "open_fails"  -> f
      [] io = "write_fails" -> JsonFile(scene_data_of(s, now))

save_to_json(s, f, now, io) ==
    CASE io = "ok"          -> JsonFile(scene_data_of(s, now))
      [] io = "open_fails"  -> f
      [] io = "write_fails" -> GarbageFile

\* the keys of scene_settings load_from_json subscripts, in evaluation order
SettingsKeys ==
    <<"width", "height", "background_color", "framerate", "color_space">>

\* the loop over scene_data["objects"]["balls"], from ball i on
RECURSIVE LoadBalls(_, _, _)
LoadBalls(new_scene, ball_list, i) ==
    IF i > Len(ball_list) THEN Return(new_scene)
    ELSE LET new_ball == Ball_from_dict(ball_list[i])
         IN  IF new_ball.exc # "none" THEN Raise(new_ball.exc, new_scene)
             ELSE LoadBalls(add_ball(new_scene, new_ball.value),
                            ball_list, i + 1)

load_from_json(f) ==
    IF f.state = "missing" THEN Raise("FileNotFoundError", None)
    ELSE IF f.state = "garbage" THEN Raise("JSONDecodeError", None)
    ELSE
    LET scene_data == f.doc
        settings   == DictGetItem(scene_data, "scene_settings")
    IN  IF settings.exc # "none" THEN Raise(settings.exc, None)
        ELSE
        LET got == [i \in 1..Len(SettingsKeys) |->
                        DictGetItem(settings.value, SettingsKeys[i])]
            bad == {i \in 1..Len(SettingsKeys) : got[i].exc # "none"}
        IN  IF bad # {}
            THEN Raise(got[CHOOSE i \in bad : \A j \in bad : i <= j].exc, None)
            ELSE
            LET new_scene == Scene(got[1].value, got[2].value, got[3].value,
                                   got[4].value, got[5].value)
                objects   == DictGetItem(scene_data, "objects")
            IN  IF objects.exc # "none" THEN Raise(objects.exc, new_scene)
                ELSE
                LET ball_list == DictGetItem(objects.value, "balls")
                IN  IF ball_list.exc # "none"
                    THEN Raise(ball_list.exc, new_scene)
                    ELSE LoadBalls(new_scene, ball_list.value, 1)

----------------------------------------------------------------------------
(* Inputs: pointer positions and scene files *)

\* where pygame.mouse.get_pos() finds the pointer at the start of a frame:
\* two canvas points, 20 apart (12-16-20)
MousePoints == {<<100, 60>>, <<112, 76>>}

\* event.pos of a MOUSEBUTTONDOWN: a point on each button of the editor
\* (Save, Run, Select, Ball, Vector) and two points that are on the startup
\* menu's New and Load buttons and, in the editor, on the canvas
EventPoints ==
    {<<20, 10>>, <<80, 10>>, <<20, 60>>, <<20, 110>>, <<20, 160>>,
     <<100, 110>>, <<100, 180>>}

MouseButtons == {1, 2, 3}

\* clock.tick(FPS) of a frame, in milliseconds
FrameMillis == {16, 17}

RgbColor(r, g, b) == [space |-> "rgb", value |-> <<r, g, b>>]

BallDoc(x, y, radius, layer) ==
    [position |-> <<x, y>>, velocity |-> <<0, 0>>, radius |-> radius,
     color |-> RgbColor(255, 0, 0), layer |-> layer]

DocWith(balls) ==
    [scene_settings |->
        [width |-> 800, height |-> 600,
         background_color |-> RgbColor(10, 10, 40),
         framerate |-> 30, color_space |-> "rgb",
         last_accessed |-> "2024-12-31T23:59:59"],
     objects |-> [balls |-> balls]]

\* d without the keys ks
Without(d, ks) == [k \in (DOMAIN d) \ ks |-> d[k]]

\* the scene files a launch of the editor may find
EditorFiles ==
    {MissingFile,
     GarbageFile,
     JsonFile(DocWith(<<BallDoc(20, 20, 20, 0)>>)),
     JsonFile(DocWith(<<BallDoc(20, 20, 20, 5), BallDoc(32, 36, 0, 2)>>))}

SubsetsUpTo(S, n) == {T \in SUBSET S : Cardinality(T) <= n}

\* scene files for the startup menu's Load Scene: absent, no JSON, and
\* two-ball documents lacking up to MaxMissing keys of each dict, the first
\* ball's radius positive, zero or negative
LoadFiles ==
    {MissingFile, GarbageFile} \cup
    {JsonFile(
        Without(
          [scene_settings |-> Without(DocWith(<<>>).scene_settings, st),
           objects |->
              Without([balls |-> <<BallDoc(20, 20, r, 5),
                                   Without(BallDoc(32, 36, 20, 2), bk)>>],
                      ob)],
          top)) :
        top \in SubsetsUpTo({"scene_settings", "objects"}, MaxMissing),
        ob  \in SubsetsUpTo({"balls"}, MaxMissing),
        st  \in SubsetsUpTo({"width", "height", "background_color",
                             "framerate", "color_space", "last_accessed"},
                            MaxMissing),
        bk  \in SubsetsUpTo({"position", "velocity", "radius", "color",
                             "layer"}, MaxMissing),
        r   \in {20, 0, -5}}

----------------------------------------------------------------------------
(* src/gemini_output.py: class App *)

Gemini == program = "gemini_output"

\* App.__init__ and the first pass of App.run, with scene file f on disk
AppInit(f) ==
    /\ pc = "startup"
    /\ file = f
    /\ running = TRUE
    /\ app_state = "STARTUP_MENU"
    /\ current_scene = None
    /\ editor_tool = "NORMAL"
    /\ selected_object = None
    /\ is_dragging_object = FALSE
    /\ is_panning = FALSE
    /\ pan_start_pos = Vector2(0, 0)
    /\ camera_offset = Vector2(CANVAS_RECT.x, CANVAS_RECT.y)
    /\ mouse_pos \in MousePoints

\* App.run after a handler has drained the event queue: `while self.running`
\* is tested, the pointer is sampled, and app_state picks the next handler
NextHandler ==
    IF ~running THEN "exit"
    ELSE CASE app_state = "STARTUP_MENU" -> "startup"
           [] app_state = "EDITOR"       -> "editor"
           [] app_state = "SIMULATION"   -> "simulation"

NextFrame ==
    /\ pc' = NextHandler
    /\ mouse_pos' \in (IF running THEN MousePoints ELSE {mouse_pos})

is_pos_on_canvas(pos) == collidepoint(CANVAS_RECT, pos)

screen_to_canvas(screen_pos) == VecSub(screen_pos, camera_offset)

(* ---- handle_startup_events ---- *)

\* a Load Scene branch that loads into place: what load_from_json had built
\* when it failed becomes the current scene
load_scene_click_in_place(cur_scene, cur_state, f) ==
    LET r == load_from_json(f)
    IN  IF r.exc = "none"
        THEN [current_scene |-> r.value, app_state |-> "EDITOR",
              uncaught |-> "none"]
        ELSE [current_scene |-> IF r.partial = None THEN cur_scene ELSE r.partial,
              app_state |-> cur_state,
              uncaught |-> IF r.exc = "FileNotFoundError" THEN "none"
                           ELSE r.exc]

\* a Load Scene branch that opens the editor when the file is not found
load_scene_click_entering_editor(cur_scene, cur_state, f) ==
    LET r == load_from_json(f)
    IN  IF r.exc = "none"
        THEN [current_scene |-> r.value, app_state |-> "EDITOR",
              uncaught |-> "none"]
        ELSE [current_scene |-> cur_scene,
              app_state |-> IF r.exc = "FileNotFoundError" THEN "EDITOR"
                            ELSE cur_state,
              uncaught |-> IF r.exc = "FileNotFoundError" THEN "none"
                           ELSE r.exc]

\* the Load Scene branch: what it leaves in current_scene and app_state, and
\* the exception that escapes it (only FileNotFoundError is caught)
load_scene_click(cur_scene, cur_state, f) ==
    LET r == load_from_json(f)
    IN  IF r.exc = "none"
        THEN [current_scene |-> r.value, app_state |-> "EDITOR",
              uncaught |-> "none"]
        ELSE [current_scene |-> cur_scene, app_state |-> cur_state,
              uncaught |-> IF r.exc = "FileNotFoundError" THEN "none"
                           ELSE r.exc]

OnNewScene(pos, button) ==
    button = 1 /\ collidepoint(ui_elements.btn_new_scene, pos)

OnLoadScene(pos, button) ==
    /\ button = 1 /\ ~collidepoint(ui_elements.btn_new_scene, pos)
    /\ collidepoint(ui_elements.btn_load_scene, pos)

StartupQuit ==
    /\ Gemini /\ pc = "startup"
    /\ running' = FALSE
    /\ UNCHANGED <<mvars, program, call, pc, file, app_state, current_scene,
                   editor_tool, selected_object, is_dragging_object,
                   is_panning, pan_start_pos, camera_offset, mouse_pos>>

StartupMouseDown(pos, button) ==
    /\ Gemini /\ pc = "startup"
    /\ IF OnNewScene(pos, button)
       THEN /\ current_scene' =
                  Scene(2000, 2000, RgbColor(10, 10, 40), 60, "rgb")
            /\ app_state' = "EDITOR"
            /\ pc' = pc
       ELSE IF OnLoadScene(pos, button)
       THEN LET after == load_scene_click(current_scene, app_state, file)
            IN  /\ current_scene' = after.current_scene
                /\ app_state' = after.app_state
                /\ pc' = IF after.uncaught = "none" THEN pc ELSE "crash"
       ELSE UNCHANGED <<current_scene, app_state, pc>>
    /\ UNCHANGED <<mvars, program, call, file, running, editor_tool,
                   selected_object, is_dragging_object, is_panning,
                   pan_start_pos, camera_offset, mouse_pos>>

StartupEndFrame ==
    /\ Gemini /\ pc = "startup"
    /\ NextFrame
    /\ UNCHANGED <<mvars, program, call, file, running, app_state,
                   current_scene, editor_tool, selected_object,
                   is_dragging_object, is_panning, pan_start_pos,
                   camera_offset>>

(* ---- handle_editor_events ---- *)

\* the button of the editor that event.pos is on, in the order of the elif
\* chain; "canvas" when none is and the sampled pointer is on the canvas
ClickTarget(pos) ==
    CASE collidepoint(ui_elements.btn_save, pos)        -> "btn_save"
      [] collidepoint(ui_elements.btn_run, pos)         -> "btn_run"
      [] collidepoint(ui_elements.btn_tool_normal, pos) -> "btn_tool_normal"
      [] collidepoint(ui_elements.btn_tool_ball, pos)   -> "btn_tool_ball"
      [] collidepoint(ui_elements.btn_tool_vector, pos) -> "btn_tool_vector"
      [] OTHER -> IF is_pos_on_canvas(mouse_pos) THEN "canvas" ELSE "nothing"

\* the ball the PLACE_BALL tool creates
placed_ball(canvas_pos) ==
    Ball(canvas_pos, Vector2(0, 0), 20, RgbColor(255, 0, 0), 1)

PlacesBall(pos, button) ==
    ClickTarget(pos) = "canvas" /\ button = 1 /\ editor_tool = "PLACE_BALL"

EditorQuit ==
    /\ Gemini /\ pc = "editor"
    /\ running' = FALSE
    /\ UNCHANGED <<mvars, program, call, pc, file, app_state, current_scene,
                   editor_tool, selected_object, is_dragging_object,
                   is_panning, pan_start_pos, camera_offset, mouse_pos>>

EditorMouseDown(pos, button) ==
    LET target     == ClickTarget(pos)
        canvas_pos == screen_to_canvas(mouse_pos)
        hit        == get_ball_at_pos(current_scene, canvas_pos)
    IN
    /\ Gemini /\ pc = "editor"
    /\ PlacesBall(pos, button) => Len(current_scene.balls) < MaxBalls
    /\ IF target = "btn_save"
       THEN \E now \in Timestamps, io \in SaveOutcomes :
                file' = save_to_json(current_scene, file, now, io)
       ELSE file' = file
    /\ app_state' = IF target = "btn_run" THEN "SIMULATION" ELSE app_state
    /\ editor_tool' =
          CASE target = "btn_tool_normal" -> "NORMAL"
            [] target = "btn_tool_ball"   -> "PLACE_BALL"
            [] target = "btn_tool_vector" -> "PLACE_VECTOR"
            [] OTHER -> editor_tool
    /\ IF target = "canvas" /\ button = 1 /\ editor_tool = "NORMAL"
       THEN /\ selected_object' = hit
            /\ is_dragging_object' =
                  IF hit # None THEN TRUE ELSE is_dragging_object
       ELSE UNCHANGED <<selected_object, is_dragging_object>>
    /\ current_scene' =
          IF PlacesBall(pos, button)
          THEN add_ball(current_scene, placed_ball(canvas_pos))
          ELSE current_scene
    /\ IF target = "canvas" /\ button = 3
       THEN is_panning' = TRUE /\ pan_start_pos' = mouse_pos
       ELSE UNCHANGED <<is_panning, pan_start_pos>>
    /\ UNCHANGED <<mvars, program, call, pc, running, camera_offset,
                   mouse_pos>>

EditorMouseUp(button) ==
    /\ Gemini /\ pc = "editor"
    /\ is_dragging_object' = IF button = 1 THEN FALSE ELSE is_dragging_object
    /\ is_panning' = IF button = 3 THEN FALSE ELSE is_panning
    /\ UNCHANGED <<mvars, program, call, pc, file, running, app_state,
                   current_scene, editor_tool, selected_object,
                   pan_start_pos, camera_offset, mouse_pos>>

\* the camera offset after a pan step that is not clamped
panned_offset_unclamped ==
    VecAdd(camera_offset, VecSub(mouse_pos, pan_start_pos))

\* the camera offset after a pan step, clamped on each axis
panned_offset ==
    LET moved == VecAdd(camera_offset, VecSub(mouse_pos, pan_start_pos))
    IN  Vector2(Min2(CANVAS_RECT.x, moved[1]), Min2(CANVAS_RECT.y, moved[2]))

WithinPanBound(offset) ==
    /\ CANVAS_RECT.x - offset[1] <= MaxPanDistance
    /\ CANVAS_RECT.y - offset[2] <= MaxPanDistance

\* a MOUSEMOTION that moves the selected ball whether a drag is on or not
EditorMouseMotion_moves_selection(pos) ==
    /\ Gemini /\ pc = "editor"
    /\ IF selected_object # None
       THEN current_scene' =
               [current_scene EXCEPT
                  !.balls[selected_object.index].position =
                      screen_to_canvas(mouse_pos)]
       ELSE UNCHANGED current_scene
    /\ UNCHANGED <<mvars, program, call, pc, file, running, app_state,
                   editor_tool, selected_object, is_dragging_object,
                   is_panning, mouse_pos, camera_offset, pan_start_pos>>

\* MOUSEMOTION with event.pos = pos, which the handler does not read: it
\* takes the pointer as sampled at the start of the frame
EditorMouseMotion(pos) ==
    /\ Gemini /\ pc = "editor"
    /\ IF is_dragging_object /\ selected_object # None
       THEN /\ current_scene' =
                  [current_scene EXCEPT
                     !.balls[selected_object.index].position =
                         screen_to_canvas(mouse_pos)]
            /\ UNCHANGED <<camera_offset, pan_start_pos>>
       ELSE IF is_panning
       THEN /\ WithinPanBound(panned_offset)
            /\ camera_offset' = panned_offset
            /\ pan_start_pos' = mouse_pos
            /\ UNCHANGED current_scene
       ELSE UNCHANGED <<current_scene, camera_offset, pan_start_pos>>
    /\ UNCHANGED <<mvars, program, call, pc, file, running, app_state,
                   editor_tool, selected_object, is_dragging_object,
                   is_panning, mouse_pos>>

EditorEndFrame ==
    /\ Gemini /\ pc = "editor"
    /\ NextFrame
    /\ UNCHANGED <<mvars, program, call, file, running, app_state,
                   current_scene, editor_tool, selected_object,
                   is_dragging_object, is_panning, pan_start_pos,
                   camera_offset>>

(* ---- handle_simulation_events, update_simulation ---- *)

\* Ball.update; dt is in milliseconds here, and every velocity of the
\* modelled scenes is zero
Ball_update(ball, dt) ==
    [ball EXCEPT !.position =
        VecAdd(@, Vector2(ball.velocity[1] * dt, ball.velocity[2] * dt))]

Scene_update(s, dt) ==
    [s EXCEPT !.balls = [i \in 1..Len(s.balls) |-> Ball_update(s.balls[i], dt)]]

SimulationQuit ==
    /\ Gemini /\ pc = "simulation"
    /\ running' = FALSE
    /\ UNCHANGED <<mvars, program, call, pc, file, app_state, current_scene,
                   editor_tool, selected_object, is_dragging_object,
                   is_panning, pan_start_pos, camera_offset, mouse_pos>>

SimulationEndFrame ==
    /\ Gemini /\ pc = "simulation"
    /\ \E dt \in FrameMillis :
          current_scene' = IF current_scene # None
                           THEN Scene_update(current_scene, dt)
                           ELSE current_scene
    /\ NextFrame
    /\ UNCHANGED <<mvars, program, call, file, running, app_state,
                   editor_tool, selected_object, is_dragging_object,
                   is_panning, pan_start_pos, camera_offset>>

(* ---- a new launch of the program, after it has ended ---- *)

Relaunch ==
    /\ Gemini /\ pc \in {"exit", "crash"}
    /\ pc' = "startup"
    /\ running' = TRUE
    /\ app_state' = "STARTUP_MENU"
    /\ current_scene' = None
    /\ editor_tool' = "NORMAL"
    /\ selected_object' = None
    /\ is_dragging_object' = FALSE
    /\ is_panning' = FALSE
    /\ pan_start_pos' = Vector2(0, 0)
    /\ camera_offset' = Vector2(CANVAS_RECT.x, CANVAS_RECT.y)
    /\ mouse_pos' \in MousePoints
    /\ UNCHANGED <<mvars, program, call, file>>

----------------------------------------------------------------------------
(* src/main.py: constants, BallPath, Ball, Scene *)

DEFAULT_WIDTH == 1280
DEFAULT_HEIGHT == 720
DEFAULT_BALL_RADIUS == 24
GRID_SPACING == 50

ATTR_LABEL_WIDTH == 150

ATTR_INPUT_WIDTH == 100

ATTR_INPUT_HEIGHT == 32

DEFAULT_BG_COLOR == <<34, 34, 34>>

DEFAULT_BALL_COLOR == <<255, 0, 0>>

BallPath(start_pos, end_pos) ==
    [start_pos |-> start_pos, end_pos |-> end_pos,
     start_time |-> 0, end_time |-> 1]

\* Ball(position=...): id stands for the identity of the Python object
MainBall(id, position) ==
    [id |-> id, position |-> position, radius |-> DEFAULT_BALL_RADIUS,
     color |-> [rgb |-> DEFAULT_BALL_COLOR], layer |-> 0, path |-> None]

is_colliding_with_point(ball, point) ==
    /\ ball.radius >= 0
    /\ DistanceSquared(ball.position, point) <= ball.radius * ball.radius

MainScene(width, height, bg_color, color_space) ==
    [width |-> width, height |-> height, bg_color |-> bg_color,
     color_space |-> color_space, balls |-> <<>>]

SetMax(S) == CHOOSE x \in S : \A y \in S : y <= x

\* max(b.layer for b in self.balls), or -1
max_layer(s) ==
    IF s.balls # <<>>
    THEN SetMax({s.balls[i].layer : i \in 1..Len(s.balls)})
    ELSE -1

\* Scene.add_ball of main.py: the layer is overwritten with max + 1
\* an add_ball that appends the ball with the layer it came with
main_add_ball_keeping_layer(s, ball) == [s EXCEPT !.balls = Append(@, ball)]

main_add_ball(s, ball) ==
    [s EXCEPT !.balls = Append(@, [ball EXCEPT !.layer = max_layer(s) + 1])]

\* a remove_ball that compares balls by position, not by identity
main_remove_ball_at_position(s, ref) ==
    IF ~\E i \in 1..Len(s.balls) : s.balls[i].id = ref.id THEN s
    ELSE LET at == (CHOOSE b \in {s.balls[i] : i \in 1..Len(s.balls)} :
                        b.id = ref.id).position
         IN  [s EXCEPT !.balls = SelectSeq(@, LAMBDA b : b.position # at)]

\* a remove_ball that, not finding the ball, removes the last one
main_remove_ball_or_last(s, ref) ==
    IF \E i \in 1..Len(s.balls) : s.balls[i].id = ref.id
    THEN [s EXCEPT !.balls = SelectSeq(@, LAMBDA b : b.id # ref.id)]
    ELSE [s EXCEPT !.balls = SubSeq(@, 1, Len(@) - 1)]

\* Scene.remove_ball: a no-op when the ball is not in the list
main_remove_ball(s, ref) ==
    [s EXCEPT !.balls = SelectSeq(@, LAMBDA b : b.id # ref.id)]

\* a reference to a Ball object
ObjectRef(ball) == [id |-> ball.id]

InScene(s, ref) == \E i \in 1..Len(s.balls) : s.balls[i].id = ref.id

\* a scan of scene.balls from the front
main_get_ball_at_pos_forward(s, pos) ==
    LET hits == {i \in 1..Len(s.balls) :
                    is_colliding_with_point(s.balls[i], pos)}
    IN  IF hits = {} THEN None
        ELSE ObjectRef(s.balls[CHOOSE i \in hits : \A h \in hits : i <= h])

\* BallSimApp.get_ball_at_pos: the first hit scanning reversed(scene.balls)
main_get_ball_at_pos(s, pos) ==
    LET hits == {i \in 1..Len(s.balls) :
                    is_colliding_with_point(s.balls[i], pos)}
    IN  IF hits = {} THEN None ELSE ObjectRef(s.balls[SetMax(hits)])

\* Python 3's round(n / d) for integers n and d > 0: to the nearest integer,
\* a tie going to the even one
py_round_div(n, d) ==
    LET q == n \div d
        r == n % d
    IN  IF 2 * r < d THEN q
        ELSE IF 2 * r > d THEN q + 1
        ELSE IF q % 2 = 0 THEN q ELSE q + 1

\* a snap to the centres of the grid's cells
snap_to_grid_cell_centres(pos) ==
    <<(pos[1] \div GRID_SPACING) * GRID_SPACING + GRID_SPACING \div 2,
      (pos[2] \div GRID_SPACING) * GRID_SPACING + GRID_SPACING \div 2>>

\* a snap to the grid line at or below each coordinate
snap_to_grid_floor(pos) ==
    <<(pos[1] \div GRID_SPACING) * GRID_SPACING,
      (pos[2] \div GRID_SPACING) * GRID_SPACING>>

\* BallSimApp.snap_to_grid: round(x / GRID_SPACING) * GRID_SPACING per axis
snap_to_grid(pos) ==
    <<py_round_div(pos[1], GRID_SPACING) * GRID_SPACING,
      py_round_div(pos[2], GRID_SPACING) * GRID_SPACING>>

----------------------------------------------------------------------------
(* src/main.py: validate_and_create_scene *)

\* a text is a sequence of characters
DigitValue(c) ==
    CASE c = "0" -> 0 [] c = "1" -> 1 [] c = "2" -> 2 [] c = "3" -> 3
      [] c = "4" -> 4 [] c = "5" -> 5 [] c = "6" -> 6 [] c = "7" -> 7
      [] c = "8" -> 8 [] c = "9" -> 9

IsDigit(c) == c \in {"0", "1", "2", "3", "4", "5", "6", "7", "8", "9"}

RECURSIVE DigitsValue(_)
DigitsValue(ds) ==
    IF ds = <<>> THEN 0
    ELSE 10 * DigitsValue(SubSeq(ds, 1, Len(ds) - 1)) + DigitValue(ds[Len(ds)])

RECURSIVE Strip(_)
Strip(t) ==
    IF t # <<>> /\ t[1] = " " THEN Strip(Tail(t))
    ELSE IF t # <<>> /\ t[Len(t)] = " " THEN Strip(SubSeq(t, 1, Len(t) - 1))
    ELSE t

\* int(text), for texts of digits, signs, blanks and letters
int_of(text) ==
    LET t      == Strip(text)
        signed == t # <<>> /\ t[1] \in {"+", "-"}
        body   == IF signed THEN Tail(t) ELSE t
    IN  IF body = <<>> \/ \E i \in 1..Len(body) : ~IsDigit(body[i])
        THEN Raise("ValueError", None)
        ELSE Return(IF signed /\ t[1] = "-" THEN 0 - DigitsValue(body)
                    ELSE DigitsValue(body))

\* a width check that takes any integer
width_ok_any_integer(text) == int_of(text).exc = "none"

width_ok(text)  == int_of(text).exc = "none" /\ int_of(text).value \in 100..3840

height_ok(text) == int_of(text).exc = "none" /\ int_of(text).value \in 100..2160

\* the texts of the three colour inputs of the active colour space
colors_ok(c) == \A i \in 1..3 : int_of(c[i]).exc = "none"

\* int(l * 2.55) clamped to 0..255, exact for the values modelled
l_gray_of(l) ==
    LET v == (l * 255) \div 100 IN IF v < 0 THEN 0 ELSE IF v > 255 THEN 255 ELSE v

bg_color_dict_of(color_space, c) ==
    LET v == <<int_of(c[1]).value, int_of(c[2]).value, int_of(c[3]).value>>
    IN  CASE color_space = "RGB"   -> [rgb |-> v]
          [] color_space = "HSLA"  -> [hsla |-> v]
          [] color_space = "oklab" ->
                [oklab |-> v,
                 rgb |-> <<l_gray_of(v[1]), l_gray_of(v[1]), l_gray_of(v[1])>>]

----------------------------------------------------------------------------
(* src/ui_elements.py: class ToggleButtonGroup *)

\* Python's None where an option's name may stand: options are strings
NoOption == "<None>"

\* ToggleButtonGroup.__init__; buttons is a dict, kept in insertion order
ToggleButtonGroup_init(active_option) ==
    [buttons |-> <<>>, active_option |-> active_option,
     hovered_option |-> NoOption]

\* ToggleButtonGroup.add_button: self.buttons[option_name] = rect
ToggleButtonGroup_add_button(self, option_name, rect) ==
    LET item == [option |-> option_name, rect |-> rect] IN
    IF \E i \in 1..Len(self.buttons) : self.buttons[i].option = option_name
    THEN [self EXCEPT !.buttons =
            [i \in 1..Len(self.buttons) |->
                IF self.buttons[i].option = option_name THEN item
                ELSE self.buttons[i]]]
    ELSE [self EXCEPT !.buttons = Append(@, item)]

\* the first option of self.buttons.items() whose rect contains pos, the
\* option at the loop's break; NoOption when the loop ends without one
option_at(self, pos) ==
    LET hits == {i \in 1..Len(self.buttons) :
                    collidepoint(self.buttons[i].rect, pos)}
    IN  IF hits = {} THEN NoOption
        ELSE self.buttons[CHOOSE i \in hits : \A j \in hits : i <= j].option

\* a handler whose click off every button leaves no option active
ToggleButtonGroup_handle_event_deselecting(self, event) ==
    IF event.type = "MOUSEMOTION"
    THEN [self EXCEPT !.hovered_option = option_at(self, event.pos)]
    ELSE IF event.type = "MOUSEBUTTONDOWN" /\ event.button = 1
    THEN [self EXCEPT !.active_option = option_at(self, event.pos)]
    ELSE self

\* ToggleButtonGroup.handle_event; on_toggle enables and disables the colour
\* inputs, which hold no state of the group
ToggleButtonGroup_handle_event(self, event) ==
    IF event.type = "MOUSEMOTION"
    THEN [self EXCEPT !.hovered_option = option_at(self, event.pos)]
    ELSE IF event.type = "MOUSEBUTTONDOWN" /\ event.button = 1
    THEN LET option == option_at(self, event.pos) IN
         IF option # NoOption /\ self.active_option # option
         THEN [self EXCEPT !.active_option = option]
         ELSE self
    ELSE self

----------------------------------------------------------------------------
(* src/ui_elements.py: class TextInput *)

\* Python's None where an error message may stand: messages are strings
NoMessage == "<None>"

\* TextInput.__init__; a text is the sequence of its characters
TextInput_init(rect, initial_text) ==
    [rect |-> rect, text |-> initial_text, is_active |-> FALSE,
     is_enabled |-> TRUE, error_message |-> NoMessage]

\* TextInput.set_enabled
TextInput_set_enabled(self, enabled) ==
    [self EXCEPT !.is_enabled = enabled,
                 !.is_active = IF enabled THEN @ ELSE FALSE]

\* TextInput.handle_event: a disabled input only loses the focus; a left
\* click gives or takes the focus; a key goes to the input that has it
TextInput_handle_event(self, event) ==
    IF ~self.is_enabled THEN [self EXCEPT !.is_active = FALSE]
    ELSE
      LET clicked ==
            IF event.type = "MOUSEBUTTONDOWN" /\ event.button = 1
            THEN [self EXCEPT !.is_active = collidepoint(self.rect, event.pos)]
            ELSE self
      IN  IF event.type = "KEYDOWN" /\ clicked.is_active
          THEN LET keyed ==
                    IF event.key = "K_RETURN"
                    THEN [clicked EXCEPT !.is_active = FALSE]
                    ELSE IF event.key = "K_BACKSPACE"
                    THEN [clicked EXCEPT
                            !.text = SubSeq(@, 1, Len(@) - 1)]
                    ELSE [clicked EXCEPT !.text = Append(@, event.unicode)]
               IN  [keyed EXCEPT !.error_message = NoMessage]
          ELSE clicked

----------------------------------------------------------------------------
(* src/main.py: class BallSimApp *)

Main == program = "main" /\ m_running

\* BallSimApp.__init__
MainAppInit ==
    /\ m_running = TRUE
    /\ m_app_state = "STATE_SUPPORT_MENU"
    /\ scene = MainScene(DEFAULT_WIDTH, DEFAULT_HEIGHT,
                         [rgb |-> DEFAULT_BG_COLOR], "oklab")
    /\ is_dragging_path = FALSE
    /\ drag_ball = None
    /\ attr_toggles = None
    /\ attr_inputs = <<>>

\* create_scene_attributes_menu, the colour space toggles: a new group with
\* oklab active and the three buttons in a row at y = 120
new_attr_toggles ==
    LET x_col1 == 50
        x_col2 == x_col1 + ATTR_LABEL_WIDTH + 10
        y_pos  == 120
        group  == ToggleButtonGroup_init("oklab")
        rgb    == ToggleButtonGroup_add_button(
                      group, "RGB", Rect(x_col2, y_pos, 80, ATTR_INPUT_HEIGHT))
        hsla   == ToggleButtonGroup_add_button(
                      rgb, "HSLA",
                      Rect(x_col2 + 90, y_pos, 80, ATTR_INPUT_HEIGHT))
    IN  ToggleButtonGroup_add_button(
            hsla, "oklab", Rect(x_col2 + 180, y_pos, 80, ATTR_INPUT_HEIGHT))

\* a toggle callback that enables the inputs of the active colour space
\* and disables none
on_color_space_toggle_enabling_only(inputs, active_option) ==
    [k \in DOMAIN inputs |->
        CASE (k \in {"rgb_r", "rgb_g", "rgb_b"} /\ active_option = "RGB")
             \/ (k \in {"hsla_h", "hsla_s", "hsla_l"} /\ active_option = "HSLA")
             \/ (k \in {"oklab_l", "oklab_a", "oklab_b"}
                 /\ active_option = "oklab") ->
                TextInput_set_enabled(inputs[k], TRUE)
          [] OTHER -> inputs[k]]

\* on_color_space_toggle: only the colour inputs of the active colour space
\* are enabled
on_color_space_toggle(inputs, active_option) ==
    [k \in DOMAIN inputs |->
        CASE k \in {"rgb_r", "rgb_g", "rgb_b"} ->
                TextInput_set_enabled(inputs[k], active_option = "RGB")
          [] k \in {"hsla_h", "hsla_s", "hsla_l"} ->
                TextInput_set_enabled(inputs[k], active_option = "HSLA")
          [] k \in {"oklab_l", "oklab_a", "oklab_b"} ->
                TextInput_set_enabled(inputs[k], active_option = "oklab")
          [] OTHER -> inputs[k]]

\* create_scene_attributes_menu, the text inputs with their initial texts,
\* and the initial enable state
new_attr_inputs ==
    LET x_col1 == 50
        x_col2 == x_col1 + ATTR_LABEL_WIDTH + 10
        size(y_pos, dx) ==
            Rect(x_col2 + dx, y_pos, ATTR_INPUT_WIDTH, ATTR_INPUT_HEIGHT)
        color(y_pos, dx) == Rect(x_col2 + dx, y_pos, 60, ATTR_INPUT_HEIGHT)
    IN  on_color_space_toggle(
          [width   |-> TextInput_init(size(75, 0), <<"1", "2", "8", "0">>),
           height  |-> TextInput_init(size(75, ATTR_INPUT_WIDTH + 30),
                                      <<"7", "2", "0">>),
           rgb_r   |-> TextInput_init(color(200, 0), <<"3", "4">>),
           rgb_g   |-> TextInput_init(color(200, 70), <<"3", "4">>),
           rgb_b   |-> TextInput_init(color(200, 140), <<"3", "4">>),
           hsla_h  |-> TextInput_init(color(250, 0), <<"0">>),
           hsla_s  |-> TextInput_init(color(250, 70), <<"0">>),
           hsla_l  |-> TextInput_init(color(250, 140), <<"3", "4">>),
           oklab_l |-> TextInput_init(color(300, 0), <<"3", "4">>),
           oklab_a |-> TextInput_init(color(300, 70), <<"0">>),
           oklab_b |-> TextInput_init(color(300, 140), <<"0">>)],
          "oklab")

\* event.pos in the attributes menu: on the RGB toggle, on the first pixel
\* right of it, on the HSLA toggle and on the oklab toggle
TogglePoints == {<<220, 130>>, <<290, 130>>, <<310, 130>>, <<400, 130>>}

\* event.pos in the attributes menu: on the width, height and rgb_r inputs
InputPoints == {<<220, 85>>, <<350, 85>>, <<220, 210>>}

\* the keys pressed in the attributes menu; event.unicode of Backspace is
\* the control character 8, written ^H here
AttrKeys ==
    {[key |-> "K_RETURN", unicode |-> "\r"],
     [key |-> "K_BACKSPACE", unicode |-> "^H"],
     [key |-> "K_9", unicode |-> "9"]}

\* pointer positions of the editor's clicks and releases
MainPoints == {<<50, 50>>, <<74, 50>>, <<75, 50>>, <<76, 50>>, <<70, 70>>}

MainQuit ==
    /\ Main
    /\ m_running' = FALSE
    /\ UNCHANGED <<gvars, program, call, attr_toggles, attr_inputs,
                   m_app_state, scene, is_dragging_path, drag_ball>>

\* the New Scene button of the support menu: go_to_scene_attributes, which
\* builds the attributes menu anew
MainMenuNewScene ==
    /\ Main /\ m_app_state = "STATE_SUPPORT_MENU"
    /\ attr_toggles' = new_attr_toggles
    /\ attr_inputs' = new_attr_inputs
    /\ m_app_state' = "STATE_SCENE_ATTRIBUTES"
    /\ UNCHANGED <<gvars, program, call, m_running, scene, is_dragging_path,
                   drag_ball>>

\* handle_events_attributes, what the toggles and the text inputs make of an
\* event: the toggles come first in attr_ui_elements and a change of the
\* active option calls on_toggle; the buttons, which come between, do not
\* write to either
handle_events_attributes(toggles, inputs, event) ==
    LET handled == ToggleButtonGroup_handle_event(toggles, event)
        toggled == IF handled.active_option # toggles.active_option
                   THEN on_color_space_toggle(inputs, handled.active_option)
                   ELSE inputs
    IN  [attr_toggles |-> handled,
         attr_inputs  |-> [k \in DOMAIN toggled |->
                             TextInput_handle_event(toggled[k], event)]]

\* handle_events_attributes with a MOUSEMOTION over the toggles' row
MainAttrMouseMotion(pos) ==
    LET after == handle_events_attributes(
                     attr_toggles, attr_inputs,
                     [type |-> "MOUSEMOTION", pos |-> pos])
    IN
    /\ Main /\ m_app_state = "STATE_SCENE_ATTRIBUTES"
    /\ attr_toggles' = after.attr_toggles
    /\ attr_inputs' = after.attr_inputs
    /\ UNCHANGED <<gvars, program, call, m_running, m_app_state, scene,
                   is_dragging_path, drag_ball>>

\* handle_events_attributes with a MOUSEBUTTONDOWN off the two buttons
MainAttrMouseDown(pos, button) ==
    LET after == handle_events_attributes(
                     attr_toggles, attr_inputs,
                     [type |-> "MOUSEBUTTONDOWN", pos |-> pos,
                      button |-> button])
    IN
    /\ Main /\ m_app_state = "STATE_SCENE_ATTRIBUTES"
    /\ attr_toggles' = after.attr_toggles
    /\ attr_inputs' = after.attr_inputs
    /\ UNCHANGED <<gvars, program, call, m_running, m_app_state, scene,
                   is_dragging_path, drag_ball>>

\* some input would take the character of a key
TakesCharacter(inputs) ==
    \E k \in DOMAIN inputs : inputs[k].is_enabled /\ inputs[k].is_active

\* handle_events_attributes with a KEYDOWN
MainAttrKeyDown(event) ==
    LET after == handle_events_attributes(
                     attr_toggles, attr_inputs,
                     [type |-> "KEYDOWN", key |-> event.key,
                      unicode |-> event.unicode])
    IN
    /\ Main /\ m_app_state = "STATE_SCENE_ATTRIBUTES"
    /\ (event.key \notin {"K_RETURN", "K_BACKSPACE"}
        /\ TakesCharacter(attr_inputs)) =>
          \A k \in DOMAIN attr_inputs :
              attr_inputs[k].is_active =>
                  Len(attr_inputs[k].text) < MaxTextLen
    /\ attr_toggles' = after.attr_toggles
    /\ attr_inputs' = after.attr_inputs
    /\ UNCHANGED <<gvars, program, call, m_running, m_app_state, scene,
                   is_dragging_path, drag_ball>>

\* a left click on the Back button of the attributes menu, the pointer
\* having moved onto it: go_to_support_menu, and the click as the other
\* elements take it
MainAttrBack ==
    LET after == handle_events_attributes(
                     attr_toggles, attr_inputs,
                     [type |-> "MOUSEBUTTONDOWN", pos |-> <<60, 440>>,
                      button |-> 1])
    IN
    /\ Main /\ m_app_state = "STATE_SCENE_ATTRIBUTES"
    /\ m_app_state' = "STATE_SUPPORT_MENU"
    /\ attr_toggles' = after.attr_toggles
    /\ attr_inputs' = after.attr_inputs
    /\ UNCHANGED <<gvars, program, call, m_running, scene, is_dragging_path,
                   drag_ball>>

\* the texts validate_and_create_scene reads for the colour of a colour space
color_texts_of(inputs, color_space) ==
    CASE color_space = "RGB" ->
            <<inputs.rgb_r.text, inputs.rgb_g.text, inputs.rgb_b.text>>
      [] color_space = "HSLA" ->
            <<inputs.hsla_h.text, inputs.hsla_s.text, inputs.hsla_l.text>>
      [] color_space = "oklab" ->
            <<inputs.oklab_l.text, inputs.oklab_a.text, inputs.oklab_b.text>>

\* a validation that marks no input
validated_inputs_unmarked(inputs) == inputs

\* validate_and_create_scene, step 1: width and height get their error
\* message or lose it
validated_inputs(inputs) ==
    [inputs EXCEPT
        !.width.error_message =
            IF width_ok(inputs.width.text) THEN NoMessage
            ELSE "Invalid (100-3840)",
        !.height.error_message =
            IF height_ok(inputs.height.text) THEN NoMessage
            ELSE "Invalid (100-2160)"]

\* validate_and_create_scene: is_valid at its end
is_valid(inputs, color_space) ==
    /\ width_ok(inputs.width.text) /\ height_ok(inputs.height.text)
    /\ colors_ok(color_texts_of(inputs, color_space))

\* a left click on the Create Scene button, the pointer having moved onto
\* it: validate_and_create_scene, go_to_scene_editor, and the click as the
\* other elements take it
MainAttrCreateScene ==
    LET color_space == attr_toggles.active_option
        after == handle_events_attributes(
                     attr_toggles, validated_inputs(attr_inputs),
                     [type |-> "MOUSEBUTTONDOWN", pos |-> <<440, 440>>,
                      button |-> 1])
    IN
    /\ Main /\ m_app_state = "STATE_SCENE_ATTRIBUTES"
    /\ IF is_valid(attr_inputs, color_space)
       THEN /\ scene' = MainScene(
                           int_of(attr_inputs.width.text).value,
                           int_of(attr_inputs.height.text).value,
                           bg_color_dict_of(
                               color_space,
                               color_texts_of(attr_inputs, color_space)),
                           color_space)
            /\ m_app_state' = "STATE_SCENE_EDITOR"
       ELSE UNCHANGED <<scene, m_app_state>>
    /\ attr_toggles' = after.attr_toggles
    /\ attr_inputs' = after.attr_inputs
    /\ UNCHANGED <<gvars, program, call, m_running, is_dragging_path,
                   drag_ball>>

\* an identity no live Ball object has
FreshId ==
    LET used == {scene.balls[i].id : i \in 1..Len(scene.balls)}
                \cup (IF drag_ball = None THEN {} ELSE {drag_ball.id})
    IN  CHOOSE n \in 1..(MaxBalls + 2) :
            n \notin used /\ \A m \in 1..(n - 1) : m \in used

AddsBall(pos, is_shift, is_del) ==
    main_get_ball_at_pos(scene, pos) = None /\ ~is_shift /\ ~is_del

\* MOUSEBUTTONDOWN of the left button, with the keys held at that moment
MainEditorMouseDown(pos, is_shift, is_del) ==
    LET clicked_ball == main_get_ball_at_pos(scene, pos) IN
    /\ Main /\ m_app_state = "STATE_SCENE_EDITOR"
    /\ AddsBall(pos, is_shift, is_del) =>
          Len(scene.balls) < MaxBalls /\ max_layer(scene) + 1 <= MaxLayer
    /\ IF clicked_ball # None
       THEN IF is_shift
            THEN /\ is_dragging_path' = TRUE
                 /\ drag_ball' = clicked_ball
                 /\ UNCHANGED scene
            ELSE IF is_del
            THEN /\ scene' = main_remove_ball(scene, clicked_ball)
                 /\ UNCHANGED <<is_dragging_path, drag_ball>>
            ELSE UNCHANGED <<scene, is_dragging_path, drag_ball>>
       ELSE IF ~is_shift /\ ~is_del
            THEN /\ scene' = main_add_ball(
                                scene, MainBall(FreshId, snap_to_grid(pos)))
                 /\ UNCHANGED <<is_dragging_path, drag_ball>>
            ELSE UNCHANGED <<scene, is_dragging_path, drag_ball>>
    /\ UNCHANGED <<gvars, program, call, attr_toggles, attr_inputs,
                   m_running, m_app_state>>

\* a commit that builds a path whatever the release point
committed_path_always(start_pos, pos) == BallPath(start_pos, snap_to_grid(pos))

\* a commit that ends the path at the release point itself
committed_path_unsnapped_end(start_pos, pos) ==
    IF DistanceSquared(start_pos, snap_to_grid(pos)) = 0 THEN None
    ELSE BallPath(start_pos, pos)

\* a commit that compares the ball's position with the release point itself
committed_path_unsnapped_test(start_pos, pos) ==
    IF DistanceSquared(start_pos, pos) = 0 THEN None
    ELSE BallPath(start_pos, snap_to_grid(pos))

\* the path a release at pos leaves on a ball at start_pos
committed_path(start_pos, pos) ==
    IF DistanceSquared(start_pos, snap_to_grid(pos)) = 0 THEN None
    ELSE BallPath(start_pos, snap_to_grid(pos))

\* a MOUSEBUTTONUP that ends the drag and keeps the reference to its ball
MainEditorMouseUp_keeping_ball(pos) ==
    /\ Main /\ m_app_state = "STATE_SCENE_EDITOR"
    /\ is_dragging_path' = FALSE
    /\ UNCHANGED <<gvars, program, call, attr_toggles, attr_inputs,
                   m_running, m_app_state, scene, drag_ball>>

\* MOUSEBUTTONUP of the left button.  A drag_ball that is no longer in the
\* scene still gets its path written, which the scene does not show.
MainEditorMouseUp(pos) ==
    /\ Main /\ m_app_state = "STATE_SCENE_EDITOR"
    /\ IF is_dragging_path /\ drag_ball # None
       THEN /\ scene' =
                [scene EXCEPT !.balls =
                    [i \in 1..Len(scene.balls) |->
                        IF scene.balls[i].id = drag_ball.id
                        THEN [scene.balls[i] EXCEPT !.path =
                                 committed_path(scene.balls[i].position, pos)]
                        ELSE scene.balls[i]]]
            /\ is_dragging_path' = FALSE
            /\ drag_ball' = None
       ELSE UNCHANGED <<scene, is_dragging_path, drag_ball>>
    /\ UNCHANGED <<gvars, program, call, attr_toggles, attr_inputs,
                   m_running, m_app_state>>

\* KEYDOWN of K_ESCAPE: go_to_support_menu
MainEditorEscape ==
    /\ Main /\ m_app_state = "STATE_SCENE_EDITOR"
    /\ m_app_state' = "STATE_SUPPORT_MENU"
    /\ UNCHANGED <<gvars, program, call, attr_toggles, attr_inputs,
                   m_running, scene, is_dragging_path, drag_ball>>

----------------------------------------------------------------------------
(* Specifications *)

\* the events of a launch whose pointer presses and releases are of buttons
GeminiEvents(buttons) ==
    \/ StartupQuit
    \/ \E pos \in EventPoints, button \in buttons :
          StartupMouseDown(pos, button)
    \/ StartupEndFrame
    \/ EditorQuit
    \/ \E pos \in EventPoints, button \in buttons :
          EditorMouseDown(pos, button)
    \/ \E button \in buttons : EditorMouseUp(button)
    \/ \E pos \in MousePoints : EditorMouseMotion(pos)
    \/ EditorEndFrame
    \/ SimulationQuit
    \/ SimulationEndFrame

GeminiNext == GeminiEvents({1, 2}) \/ Relaunch

\* the other program is not launched
MainIdle == MainAppInit

GeminiIdle ==
    /\ pc = "not_launched"
    /\ file = MissingFile
    /\ running = FALSE
    /\ app_state = "STARTUP_MENU"
    /\ current_scene = None
    /\ editor_tool = "NORMAL"
    /\ selected_object = None
    /\ is_dragging_object = FALSE
    /\ is_panning = FALSE
    /\ pan_start_pos = Vector2(0, 0)
    /\ camera_offset = Vector2(CANVAS_RECT.x, CANVAS_RECT.y)
    /\ mouse_pos = Vector2(0, 0)

GeminiInit ==
    /\ program = "gemini_output"
    /\ \E f \in EditorFiles : AppInit(f)
    /\ MainIdle
    /\ call = None

\* gemini_output.py, launched any number of times over one scene file
SpecGemini == GeminiInit /\ [][GeminiNext]_vars

MainNext ==
    \/ MainQuit
    \/ MainMenuNewScene
    \/ MainAttrBack
    \/ \E pos \in TogglePoints, button \in {1, 3} :
          MainAttrMouseDown(pos, button)
    \/ MainAttrCreateScene
    \/ \E pos \in MainPoints, is_shift \in BOOLEAN, is_del \in BOOLEAN :
          MainEditorMouseDown(pos, is_shift, is_del)
    \/ \E pos \in MainPoints : MainEditorMouseUp(pos)
    \/ MainEditorEscape

MainInit ==
    /\ program = "main"
    /\ MainAppInit
    /\ GeminiIdle
    /\ call = None

\* main.py, launched once
SpecMain == MainInit /\ [][MainNext]_vars

AttrNext ==
    \/ MainMenuNewScene
    \/ MainAttrBack
    \/ \E pos \in TogglePoints : MainAttrMouseMotion(pos)
    \/ \E pos \in TogglePoints, button \in {1, 3} :
          MainAttrMouseDown(pos, button)
    \/ MainAttrCreateScene
    \/ MainEditorEscape

\* main.py between the support menu, the attributes menu and the editor,
\* with no event for the editor but Escape and no text typed
SpecAttr == MainInit /\ [][AttrNext]_vars

TypeNext ==
    \/ MainMenuNewScene
    \/ MainAttrBack
    \/ \E pos \in TogglePoints \cup InputPoints : MainAttrMouseDown(pos, 1)
    \/ \E event \in AttrKeys : MainAttrKeyDown(event)
    \/ MainAttrCreateScene

\* main.py in the attributes menu, with clicks on the toggles and on three
\* of the text inputs, and keys; the editor is entered and not left
SpecType == MainInit /\ [][TypeNext]_vars

LoadInit ==
    /\ program = "gemini_output"
    /\ \E f \in LoadFiles : AppInit(f)
    /\ MainIdle
    /\ call = None

LoadNext ==
    \/ StartupQuit
    \/ \E pos \in EventPoints, button \in {1, 2} :
          StartupMouseDown(pos, button)
    \/ StartupEndFrame
    \/ Relaunch

\* gemini_output.py over any of the scene files, up to leaving the startup
\* menu
SpecLoad == LoadInit /\ [][LoadNext]_vars

PanNext ==
    \/ StartupQuit
    \/ \E pos \in EventPoints : StartupMouseDown(pos, 1)
    \/ StartupEndFrame
    \/ EditorQuit
    \/ \E pos \in EventPoints : EditorMouseDown(pos, 3)
    \/ EditorMouseUp(3)
    \/ \E pos \in MousePoints : EditorMouseMotion(pos)
    \/ EditorEndFrame
    \/ Relaunch

\* gemini_output.py with the right button alone pressed in the editor: pan
\* gestures over a new or a loaded scene
SpecPan == GeminiInit /\ [][PanNext]_vars

\* the coordinates snap_to_grid is applied to
SnapCoords == (0 - MaxCoord)..MaxCoord

SnapPoints == SnapCoords \X SnapCoords

SnapInit ==
    /\ program = "main"
    /\ MainAppInit
    /\ GeminiIdle
    /\ \E pos \in SnapPoints : call = [arg |-> pos, ret |-> None]

\* snap_to_grid(pos)
CallSnapToGrid ==
    /\ call # None /\ call.ret = None
    /\ call' = [call EXCEPT !.ret = snap_to_grid(call.arg)]
    /\ UNCHANGED <<program, gvars, mvars>>

\* snap_to_grid of the point the last application returned
CallSnapToGridAgain ==
    /\ call # None /\ call.ret # None
    /\ call' = [arg |-> call.ret, ret |-> None]
    /\ UNCHANGED <<program, gvars, mvars>>

SnapNext == CallSnapToGrid \/ CallSnapToGridAgain

\* snap_to_grid applied to a point, and again to what it returns
SpecSnap == SnapInit /\ [][SnapNext]_vars

\* a launch of either program
Init == GeminiInit \/ MainInit

Next == GeminiNext \/ MainNext

Spec == Init /\ [][Next]_vars

----------------------------------------------------------------------------
(* Properties *)

\* canvas points a hit-test is asked about: the centres of the balls of the
\* scene files, the point midway between them, and a point 20 from a centre
CanvasPoints == {<<20, 20>>, <<26, 28>>, <<32, 36>>, <<44, 52>>}

\* distance(b.position, p) <= b.radius, on integers
Within(ball, p) ==
    /\ ball.radius >= 0
    /\ DistanceSquared(ball.position, p) <= ball.radius * ball.radius

GeminiScene == program = "gemini_output" /\ current_scene # None

MainSceneOpen == program = "main"

\* C1: from an empty Scene, the k-th ball given to Scene.add_ball ends with
\* layer k-1, whatever layer it was given with.  The scenes of
\* gemini_output.py are built by add_ball calls alone (load_from_json and the
\* PLACE_BALL tool), from empty.
C1_KthAddedBallHasLayerKMinus1 ==
    GeminiScene =>
        \A k \in 1..Len(current_scene.balls) :
            current_scene.balls[k].layer = k - 1

\* C2: in every editor state no two balls of the current scene have the same
\* layer
C2_LayersAreUnique ==
    GeminiScene =>
        \A i, j \in 1..Len(current_scene.balls) :
            i # j => current_scene.balls[i].layer # current_scene.balls[j].layer

\* C3: for a point inside at least one ball, the hit-test returns a ball that
\* contains the point and whose layer is the greatest among the balls
\* containing it
C3_HitTestReturnsGreatestLayer ==
    /\ GeminiScene =>
          \A p \in CanvasPoints :
              LET balls == current_scene.balls
                  hit   == get_ball_at_pos(current_scene, p)
              IN  (\E i \in 1..Len(balls) : Within(balls[i], p)) =>
                      /\ hit # None
                      /\ Within(balls[hit.index], p)
                      /\ \A i \in 1..Len(balls) :
                            Within(balls[i], p) =>
                                balls[i].layer <= balls[hit.index].layer
    /\ MainSceneOpen =>
          \A p \in MainPoints :
              LET balls == scene.balls
                  hit   == main_get_ball_at_pos(scene, p)
              IN  (\E i \in 1..Len(balls) : Within(balls[i], p)) =>
                      /\ hit # None
                      /\ \E h \in 1..Len(balls) :
                            /\ balls[h].id = hit.id
                            /\ Within(balls[h], p)
                            /\ \A i \in 1..Len(balls) :
                                  Within(balls[i], p) =>
                                      balls[i].layer <= balls[h].layer

\* C3, its case: two balls of different layers contain the same point, and
\* the hit-test of main.py answers with the upper one
C3_OverlappingBallsHit ==
    /\ MainSceneOpen
    /\ \E p \in MainPoints :
          \E i, j \in 1..Len(scene.balls) :
              /\ Within(scene.balls[i], p) /\ Within(scene.balls[j], p)
              /\ scene.balls[i].layer < scene.balls[j].layer
              /\ main_get_ball_at_pos(scene, p) = ObjectRef(scene.balls[j])

\* C4: the ball the hit-test returns for a point is the ball Scene.draw paints
\* last among the balls containing the point, equal layers included
C4_HitTestReturnsTopPaintedBall ==
    GeminiScene =>
        \A p \in CanvasPoints :
            LET balls   == current_scene.balls
                order   == draw_order(current_scene)
                painted == {j \in 1..Len(order) : Within(balls[order[j]], p)}
            IN  painted # {} =>
                    get_ball_at_pos(current_scene, p) =
                        BallRef(order[SetMax(painted)])

\* C5: the hit-test returns None exactly when no ball of the scene contains
\* the point, a point on the boundary being contained
C5_NoneIffNoBallContains ==
    /\ GeminiScene =>
          \A p \in CanvasPoints :
              (get_ball_at_pos(current_scene, p) = None) <=>
                  ~\E i \in 1..Len(current_scene.balls) :
                        Within(current_scene.balls[i], p)
    /\ MainSceneOpen =>
          \A p \in MainPoints :
              (main_get_ball_at_pos(scene, p) = None) <=>
                  ~\E i \in 1..Len(scene.balls) : Within(scene.balls[i], p)

\* C5, its case: a point exactly on the boundary of a ball and strictly
\* inside none is hit, and a point outside every ball is not
C5_BoundaryPointHit ==
    /\ GeminiScene
    /\ \E p, q \in CanvasPoints :
          LET balls == current_scene.balls IN
          /\ \E i \in 1..Len(balls) :
                /\ balls[i].radius > 0
                /\ DistanceSquared(balls[i].position, p) =
                      balls[i].radius * balls[i].radius
          /\ \A i \in 1..Len(balls) :
                DistanceSquared(balls[i].position, p) >=
                    balls[i].radius * balls[i].radius
          /\ get_ball_at_pos(current_scene, p) # None
          /\ get_ball_at_pos(current_scene, q) = None

\* C6: loading the document save_to_json writes for the current scene yields
\* a scene equal to it: the settings, and the balls in the same order with
\* the same position, radius, colour and layer
C6_LoadOfSavedSceneIsScene ==
    GeminiScene =>
        \A now \in Timestamps :
            LET written == save_to_json(current_scene, file, now, "ok")
                loaded  == load_from_json(written)
            IN  /\ written = JsonFile(scene_data_of(current_scene, now))
                /\ loaded.exc = "none"
                /\ loaded.value = current_scene

\* C6, its case: a scene of the editor with two balls was saved, and the
\* startup menu of the next launch has loaded that file
C6_SavedSceneLoaded ==
    /\ GeminiScene
    /\ pc = "startup" /\ app_state = "EDITOR"
    /\ current_scene.width = 2000
    /\ Len(current_scene.balls) = 2
    /\ current_scene.balls[1].position # current_scene.balls[2].position
    /\ \E now \in Timestamps :
          file = JsonFile(scene_data_of(current_scene, now))

\* a click on Load Scene in the startup menu whose load_from_json fails
FailedLoadAttempt ==
    /\ pc = "startup"
    /\ load_from_json(file).exc # "none"
    /\ \E pos \in EventPoints, button \in MouseButtons :
          OnLoadScene(pos, button) /\ StartupMouseDown(pos, button)

\* C7: a load attempt that fails leaves the current scene and the app state
\* as they were; a partly built scene never becomes the current scene
C7_FailedLoadKeepsSceneAndState ==
    [][FailedLoadAttempt =>
          current_scene' = current_scene /\ app_state' = app_state]_vars

\* C7, its case: a load failed on a document whose settings decode and whose
\* balls do not (a partly built scene exists), a scene being current
C7_FailedLoadWithSceneOpen ==
    /\ pc = "crash"
    /\ load_from_json(file).exc = "KeyError"
    /\ load_from_json(file).partial # None
    /\ current_scene = Scene(2000, 2000, RgbColor(10, 10, 40), 60, "rgb")
    /\ app_state = "EDITOR"

\* C8: a load attempt on a missing or a malformed scene file never ends the
\* application: the event loop goes on in the startup menu
C8_FailedLoadKeepsRunning ==
    [][FailedLoadAttempt => pc' = "startup" /\ running' = running]_vars

\* a key load_from_json or Ball.from_dict subscripts is absent from the
\* document
LacksRequiredKey(doc) ==
    \/ "scene_settings" \notin DOMAIN doc
    \/ \E k \in {"width", "height", "background_color", "framerate",
                 "color_space"} : k \notin DOMAIN doc.scene_settings
    \/ "objects" \notin DOMAIN doc
    \/ "balls" \notin DOMAIN doc.objects
    \/ \E i \in 1..Len(doc.objects.balls) :
          \E k \in {"position", "velocity", "radius", "color", "layer"} :
              k \notin DOMAIN doc.objects.balls[i]

\* C9: decoding a document that lacks width, or another key the decoder
\* reads, fails and returns no Scene, and the application never holds a
\* scene made from such a document
C9_MissingKeyFailsDecode ==
    (file.state = "json" /\ LacksRequiredKey(file.doc)) =>
        /\ load_from_json(file).exc = "KeyError"
        /\ load_from_json(file).value = None
        /\ current_scene \in
              {None, Scene(2000, 2000, RgbColor(10, 10, 40), 60, "rgb")}

\* C9, its case: Load Scene was clicked on a document in which width alone
\* is missing
C9_LoadWithoutWidthAttempted ==
    /\ pc = "crash"
    /\ file.state = "json"
    /\ "scene_settings" \in DOMAIN file.doc
    /\ "width" \notin DOMAIN file.doc.scene_settings
    /\ ~LacksRequiredKey(
          [file.doc EXCEPT !.scene_settings =
              [k \in DOMAIN @ \cup {"width"} |->
                  IF k = "width" THEN 800 ELSE @[k]]])
    /\ current_scene = None

\* C10: no ball of a scene has a radius of 0 or less
C10_RadiusIsPositive ==
    GeminiScene =>
        \A i \in 1..Len(current_scene.balls) :
            current_scene.balls[i].radius > 0

\* a click on Save in the editor whose write fails
FailedSave ==
    /\ pc = "editor"
    /\ \E now \in Timestamps, io \in SaveOutcomes \ {"ok"} :
          file' = save_to_json(current_scene, file, now, io)
    /\ \E pos \in EventPoints :
          /\ ClickTarget(pos) = "btn_save"
          /\ \E button \in MouseButtons : EditorMouseDown(pos, button)

\* C11: a save whose write fails leaves the scene, the app state and the
\* editor state as they were and the application running, and the write is
\* not tried again: the file is as it was, or truncated, never written
C11_FailedSaveChangesNothing ==
    /\ [][FailedSave =>
            /\ UNCHANGED <<current_scene, app_state, editor_tool,
                           selected_object, is_dragging_object, is_panning,
                           pan_start_pos, camera_offset, running>>
            /\ pc' = "editor"]_vars
    /\ [](GeminiScene =>
            \A now \in Timestamps, io \in SaveOutcomes \ {"ok"} :
                save_to_json(current_scene, file, now, io)
                    \in {file, GarbageFile})

\* C11, its case: a scene loaded from the scene file is open in the editor
\* with a ball dragged away, and a save of it has failed midway: the file is
\* no longer the document it was loaded from
C11_SaveFailedInEditor ==
    /\ GeminiScene /\ pc = "editor" /\ running
    /\ current_scene.width = 800
    /\ file = GarbageFile

\* the startup menu has just loaded a scene that the editor made from New
\* Scene (its width is 2000) with one ball placed, and saved
LoadedOnePlacedBall ==
    /\ GeminiScene
    /\ pc = "startup" /\ app_state = "EDITOR"
    /\ current_scene.width = 2000
    /\ Len(current_scene.balls) = 1

\* C12: a ball placed by the editor into an empty scene, then saved and
\* loaded back, is the only ball of the loaded scene, where the pointer put
\* it, and has layer 0
C12_PlacedBallLoadsWithLayer0 ==
    LoadedOnePlacedBall =>
        /\ current_scene.balls[1].position \in
              {screen_to_canvas(m) : m \in MousePoints}
        /\ current_scene.balls[1].layer = 0

\* the ball of main.py's scene that ref refers to: its place in scene.balls
PlaceOf(s, ref) == CHOOSE i \in 1..Len(s.balls) : s.balls[i].id = ref.id

\* a path drag is in progress on a ball of the scene
DefiningPath ==
    /\ program = "main" /\ m_running
    /\ m_app_state = "STATE_SCENE_EDITOR"
    /\ is_dragging_path /\ drag_ball # None
    /\ InScene(scene, drag_ball)

\* no path drag is in progress and no ball is referenced
MainEditorIdle == ~is_dragging_path /\ drag_ball = None

\* C13: a path drag on ball b that ends with a left pointer-up at p with
\* snap(p) = b.position leaves b without a path, whether it had one or not,
\* and the editor Idle
C13_ReleaseOnBallRemovesPath ==
    [][\A p \in MainPoints :
          (/\ DefiningPath
           /\ snap_to_grid(p) = scene.balls[PlaceOf(scene, drag_ball)].position
           /\ MainEditorMouseUp(p))
          => /\ scene'.balls[PlaceOf(scene, drag_ball)].path = None
             /\ MainEditorIdle']_vars

\* C13, its case: a path drag is in progress on a ball that has a path, and
\* a point of the pointer snaps to the ball's position
C13_DragOnBallWithPath ==
    /\ DefiningPath
    /\ scene.balls[PlaceOf(scene, drag_ball)].path # None
    /\ \E p \in MainPoints :
          /\ snap_to_grid(p) = scene.balls[PlaceOf(scene, drag_ball)].position
          /\ p # scene.balls[PlaceOf(scene, drag_ball)].position

\* C14: a path drag on ball b that ends with a left pointer-up at p with
\* snap(p) # b.position leaves b with the path from b.position to snap(p),
\* whatever path it had; no other ball changes and the editor is Idle
C14_ReleaseElsewhereSetsPath ==
    [][\A p \in MainPoints :
          LET b == PlaceOf(scene, drag_ball) IN
          (/\ DefiningPath
           /\ snap_to_grid(p) # scene.balls[b].position
           /\ MainEditorMouseUp(p))
          => /\ scene'.balls[b].path # None
             /\ scene'.balls[b].path.start_pos = scene.balls[b].position
             /\ scene'.balls[b].path.end_pos = snap_to_grid(p)
             /\ Len(scene'.balls) = Len(scene.balls)
             /\ \A i \in 1..Len(scene.balls) :
                   i # b => scene'.balls[i] = scene.balls[i]
             /\ MainEditorIdle']_vars

\* C14, its case: a path drag is in progress on a ball that has a path, next
\* to another ball that has one too, and a point of the pointer that is not
\* on the grid snaps away from the dragged ball
C14_DragAmongBallsWithPaths ==
    /\ DefiningPath
    /\ Len(scene.balls) = 2
    /\ \A i \in 1..2 : scene.balls[i].path # None
    /\ \E p \in MainPoints :
          /\ snap_to_grid(p) # p
          /\ snap_to_grid(p) # scene.balls[PlaceOf(scene, drag_ball)].position

\* C15: no ball holds a path whose start and end are the same point
C15_NoDegeneratePath ==
    program = "main" =>
        \A i \in 1..Len(scene.balls) :
            scene.balls[i].path # None =>
                scene.balls[i].path.start_pos # scene.balls[i].path.end_pos

\* C15, its case: path drags have ended, one ball of the scene holding a
\* path and another holding none
C15_PathsCommitted ==
    /\ program = "main"
    /\ Len(scene.balls) = 2
    /\ \E i, j \in 1..2 :
          scene.balls[i].path # None /\ scene.balls[j].path = None
    /\ MainEditorIdle

\* C16: a ball the editor state refers to is a ball of the current scene
C16_ReferencedBallIsInScene ==
    (program = "main" /\ drag_ball # None) => InScene(scene, drag_ball)

\* C17: whenever the app enters the scene editor, no path drag is in
\* progress and no ball is referenced
C17_EditorEnteredIdle ==
    [][(/\ program = "main"
        /\ m_app_state # "STATE_SCENE_EDITOR"
        /\ m_app_state' = "STATE_SCENE_EDITOR")
       => MainEditorIdle']_vars

\* a ball drag is in progress in the editor of gemini_output.py
Dragging ==
    /\ program = "gemini_output" /\ pc = "editor"
    /\ is_dragging_object /\ selected_object # None

\* C18: a change of tool while a ball drag is in progress ends the drag
C18_ToolSwitchEndsDrag ==
    [][(Dragging /\ editor_tool' # editor_tool) => ~is_dragging_object']_vars

\* C19: while ball b is dragged, a pointer-move at screen point s puts b at
\* s - camera_offset and changes nothing else: the other balls, the order,
\* the layers, the camera offset and the drag stay as they are
C19_DragFollowsPointerMove ==
    [][\A s \in MousePoints :
          (Dragging /\ EditorMouseMotion(s)) =>
              /\ current_scene' =
                    [current_scene EXCEPT
                        !.balls[selected_object.index].position =
                            VecSub(s, camera_offset)]
              /\ UNCHANGED <<camera_offset, selected_object,
                             is_dragging_object>>]_vars

\* what the handler does instead: the dragged ball goes to the pointer as
\* sampled at the start of the frame, and nothing else changes
DragFollowsSampledPointer ==
    [][\A s \in MousePoints :
          (Dragging /\ EditorMouseMotion(s)) =>
              /\ current_scene' =
                    [current_scene EXCEPT
                        !.balls[selected_object.index].position =
                            VecSub(mouse_pos, camera_offset)]
              /\ UNCHANGED <<camera_offset, selected_object,
                             is_dragging_object>>]_vars

\* C20: a left pointer-up ends a ball drag, and while no drag is in progress
\* no step of the editor moves a ball; a drag only starts with a left
\* pointer-down of the Select tool on a ball
C20_LeftUpEndsDrag ==
    /\ [][(pc = "editor" /\ EditorMouseUp(1)) => ~is_dragging_object']_vars
    /\ [][(program = "gemini_output" /\ pc = "editor"
           /\ ~is_dragging_object) =>
             /\ \A i \in 1..Len(current_scene.balls) :
                   current_scene'.balls[i].position =
                       current_scene.balls[i].position
             /\ is_dragging_object' =>
                   /\ editor_tool = "NORMAL"
                   /\ get_ball_at_pos(current_scene,
                                      screen_to_canvas(mouse_pos)) # None
                   /\ \E pos \in EventPoints :
                         /\ ClickTarget(pos) = "canvas"
                         /\ EditorMouseDown(pos, 1)]_vars

\* C20, its case: a drag has ended on a ball that stays selected, and the
\* pointer has moved on to another canvas point
C20_DragEnded ==
    /\ program = "gemini_output" /\ pc = "editor" /\ running
    /\ ~is_dragging_object /\ selected_object # None
    /\ current_scene.balls[selected_object.index].position #
          screen_to_canvas(mouse_pos)

\* the pointer of gemini_output.py's editor is over canvas that no ball
\* covers, the Select tool being the tool
SelectOverEmptyCanvas ==
    /\ program = "gemini_output" /\ pc = "editor"
    /\ current_scene # None
    /\ editor_tool = "NORMAL"
    /\ is_pos_on_canvas(mouse_pos)
    /\ get_ball_at_pos(current_scene, screen_to_canvas(mouse_pos)) = None

\* C21: a left pointer-down of the Select tool adds a ball when the hit-test
\* finds none: after it the scene has one ball more, the balls it had being
\* as they were.  Stated for the editor of gemini_output.py.
C21_SelectClickOnMissAddsBall ==
    SelectOverEmptyCanvas =>
        \A pos \in EventPoints :
            ClickTarget(pos) = "canvas" =>
                ENABLED (/\ EditorMouseDown(pos, 1)
                         /\ Len(current_scene'.balls) =
                               Len(current_scene.balls) + 1
                         /\ SubSeq(current_scene'.balls, 1,
                                   Len(current_scene.balls)) =
                               current_scene.balls)

\* the same for the editor of main.py, where it holds: a left pointer-down
\* without modifier adds one default ball at snap(p) on a miss and leaves the
\* balls as they are on a hit
MainClickAddsBallIffMiss ==
    [][\A p \in MainPoints :
          (m_app_state = "STATE_SCENE_EDITOR"
           /\ MainEditorMouseDown(p, FALSE, FALSE)) =>
              IF main_get_ball_at_pos(scene, p) = None
              THEN /\ Len(scene'.balls) = Len(scene.balls) + 1
                   /\ SubSeq(scene'.balls, 1, Len(scene.balls)) = scene.balls
                   /\ LET new == scene'.balls[Len(scene'.balls)] IN
                      /\ new.position = snap_to_grid(p)
                      /\ new.radius = DEFAULT_BALL_RADIUS
                      /\ new.path = None
              ELSE scene' = scene]_vars

\* C22: a ball placed with the PlaceBall tool is placed at snap(p): its
\* coordinates are multiples of the grid spacing
C22_PlacedBallIsOnGrid ==
    [][\A pos \in EventPoints :
          (program = "gemini_output" /\ pc = "editor"
           /\ PlacesBall(pos, 1) /\ EditorMouseDown(pos, 1)) =>
              LET new == current_scene'.balls[Len(current_scene'.balls)] IN
              /\ new.position = snap_to_grid(screen_to_canvas(mouse_pos))
              /\ new.position[1] % GRID_SPACING = 0
              /\ new.position[2] % GRID_SPACING = 0]_vars

\* the sequence without its k-th element
SeqWithout(seq, k) == SubSeq(seq, 1, k - 1) \o SubSeq(seq, k + 1, Len(seq))

BallRefs == {[id |-> n] : n \in 1..(MaxBalls + 2)}

\* C24: remove_ball(b) leaves the scene as it is when b is not in it,
\* removes b and no other ball when it is, and a second remove_ball(b)
\* changes nothing more
C24_RemoveBallIsIdempotent ==
    program = "main" =>
        \A ref \in BallRefs :
            LET once == main_remove_ball(scene, ref) IN
            /\ ~InScene(scene, ref) => once = scene
            /\ InScene(scene, ref) =>
                  once = [scene EXCEPT
                             !.balls = SeqWithout(@, PlaceOf(scene, ref))]
            /\ main_remove_ball(once, ref) = once

\* C24, its case: the ball of a path drag was removed from a scene that
\* holds another ball: a removal of it would meet a ball that is absent
C24_AbsentBallAtHand ==
    /\ program = "main" /\ drag_ball # None
    /\ ~InScene(scene, drag_ball)
    /\ scene.balls # <<>>

\* the application of snap_to_grid has returned
Snapped == call # None /\ call.ret # None

OnGrid(pos) == pos[1] % GRID_SPACING = 0 /\ pos[2] % GRID_SPACING = 0

\* C25: for every integer point p, snap_to_grid(snap_to_grid(p)) equals
\* snap_to_grid(p), and both coordinates of snap_to_grid(p) are integer
\* multiples of GRID_SPACING.
C25_SnapIsIdempotentAndOnGrid ==
    Snapped => /\ OnGrid(call.ret)
               /\ snap_to_grid(call.ret) = call.ret

\* snap_to_grid has been applied to an on-grid point other than the origin
\* that an earlier application returned
C25_SnappedPointSnappedAgain ==
    /\ Snapped
    /\ call.arg = <<50, -100>>
    /\ call.ret = call.arg

Abs(n) == IF n < 0 THEN 0 - n ELSE n

\* the multiples of GRID_SPACING around -MaxCoord..MaxCoord
GridLines ==
    {k * GRID_SPACING :
        k \in (0 - (MaxCoord \div GRID_SPACING + 1))..
              (MaxCoord \div GRID_SPACING + 1)}

\* C26: for every integer coordinate c, the snapped value is a nearest
\* multiple of the spacing, |snap(c) - c| <= GRID_SPACING / 2, and each axis
\* is snapped independently: the snapped x depends only on x and the snapped
\* y only on y.
C26_SnapIsNearestPerAxis ==
    Snapped =>
        /\ \A i \in 1..2 :
              /\ call.ret[i] \in GridLines
              /\ 2 * Abs(call.ret[i] - call.arg[i]) <= GRID_SPACING
              /\ \A m \in GridLines :
                    Abs(call.ret[i] - call.arg[i]) <= Abs(m - call.arg[i])
        /\ \A c \in SnapCoords :
              /\ snap_to_grid(<<call.arg[1], c>>)[1] = call.ret[1]
              /\ snap_to_grid(<<c, call.arg[2]>>)[2] = call.ret[2]

\* snap_to_grid has been applied to a point midway between grid lines on
\* both axes
C26_MidwayPointSnapped ==
    /\ Snapped
    /\ call.arg = <<25, 75>>
    /\ call.ret = <<0, 100>>

\* C27: in every reachable state, after any sequence of pan gestures,
\* camera_offset.x <= CANVAS_RECT.x and camera_offset.y <= CANVAS_RECT.y:
\* the canvas origin is never panned past the viewport's top-left corner.
C27_OriginNotPastTopLeft ==
    program = "gemini_output" =>
        /\ camera_offset[1] <= CANVAS_RECT.x
        /\ camera_offset[2] <= CANVAS_RECT.y

\* C27, its case: a pan is on, the origin is at the viewport's corner, and
\* the pointer has moved right and down since the pan's last step, so the
\* next MOUSEMOTION would carry the origin past the corner
C27_PanTowardsBottomRight ==
    /\ program = "gemini_output" /\ pc = "editor" /\ is_panning
    /\ camera_offset = Vector2(CANVAS_RECT.x, CANVAS_RECT.y)
    /\ mouse_pos[1] > pan_start_pos[1] /\ mouse_pos[2] > pan_start_pos[2]
    /\ ENABLED (\E pos \in MousePoints : EditorMouseMotion(pos))

\* the scene in the editor is one validate_and_create_scene has built
CreatedSceneOpen == program = "main" /\ m_app_state = "STATE_SCENE_EDITOR"

\* the key of bg_color that holds the colour of a colour space
VariantOf(color_space) ==
    CASE color_space = "RGB"   -> "rgb"
      [] color_space = "HSLA"  -> "hsla"
      [] color_space = "oklab" -> "oklab"

\* C28: every color specification held by a scene created through the
\* scene-attributes menu has exactly one color-space variant populated (only
\* 'rgb', only 'hsla' or only 'oklab'), and that variant is the one of the
\* color space selected for the scene.
C28_OneVariantOfSelectedSpace ==
    CreatedSceneOpen =>
        DOMAIN scene.bg_color = {VariantOf(scene.color_space)}

\* C29: whenever the app is in the scene editor, the scene's background
\* color fields lie in their declared ranges (RGB components in 0..255, HSLA
\* h in 0..360 and s, l in 0..100): validate_and_create_scene never creates
\* a scene from out-of-range color inputs.
C29_ColorFieldsInRange ==
    CreatedSceneOpen =>
        /\ "rgb" \in DOMAIN scene.bg_color =>
              \A i \in 1..3 : scene.bg_color.rgb[i] \in 0..255
        /\ "hsla" \in DOMAIN scene.bg_color =>
              /\ scene.bg_color.hsla[1] \in 0..360
              /\ scene.bg_color.hsla[2] \in 0..100
              /\ scene.bg_color.hsla[3] \in 0..100

\* C30: in every reachable state of a ToggleButtonGroup whose buttons have
\* been added, exactly one option is active: active_option is always the
\* name of one registered button, whatever sequence of clicks and mouse
\* motions is delivered.
C30_OneRegisteredOptionActive ==
    (program = "main" /\ attr_toggles # None) =>
        Cardinality({i \in 1..Len(attr_toggles.buttons) :
                        attr_toggles.buttons[i].option =
                            attr_toggles.active_option}) = 1

\* C30, its case: the attributes menu is open, a click has moved the active
\* option off the initial oklab and a motion has left the pointer over
\* another button
C30_ToggledAndHovered ==
    /\ program = "main" /\ m_app_state = "STATE_SCENE_ATTRIBUTES"
    /\ attr_toggles.active_option = "HSLA"
    /\ attr_toggles.hovered_option = "RGB"

\* points a hit-test of main.py is asked about: the pointer positions of the
\* editor's events and the grid point right of the first
MainHitPoints == MainPoints \cup {<<100, 50>>}

\* C31: for every scene built by any sequence of Scene.add_ball and
\* Scene.remove_ball of main.py, the ball list is strictly increasing in
\* layer, so the hit-test of main.py (first hit scanning the list in reverse
\* insertion order) returns the same ball as the hit-test of gemini_output.py
\* (first hit scanning balls sorted by layer descending) for every point.
C31_ReverseScanIsLayerScan ==
    program = "main" =>
        /\ \A i, j \in 1..Len(scene.balls) :
              i < j => scene.balls[i].layer < scene.balls[j].layer
        /\ \A pos \in MainHitPoints :
              LET by_list  == main_get_ball_at_pos(scene, pos)
                  by_layer == get_ball_at_pos(scene, pos)
              IN  IF by_list = None THEN by_layer = None
                  ELSE /\ by_layer # None
                       /\ scene.balls[by_layer.index].id = by_list.id

\* C31, its case: after a removal and a new placement the scene holds two
\* balls, both containing one of the points asked about
C31_TwoBallsUnderOnePoint ==
    /\ program = "main" /\ Len(scene.balls) = 2
    /\ scene.balls[1].layer > 0
    /\ \E pos \in MainHitPoints :
          /\ is_colliding_with_point(scene.balls[1], pos)
          /\ is_colliding_with_point(scene.balls[2], pos)

\* C32: in every reachable state of the main.py editor, is_dragging_path is
\* true if and only if drag_ball is not None; both are set together by a
\* shift-click that hits a ball and both are cleared together by the next
\* left pointer-up.
C32_DragFlagIffDragBall ==
    /\ [](program = "main" => (is_dragging_path <=> drag_ball # None))
    /\ [][\A pos \in MainPoints, is_del \in BOOLEAN :
            (/\ main_get_ball_at_pos(scene, pos) # None
             /\ MainEditorMouseDown(pos, TRUE, is_del))
            => /\ is_dragging_path'
               /\ drag_ball' = main_get_ball_at_pos(scene, pos)]_vars
    /\ [][(\E pos \in MainPoints : MainEditorMouseUp(pos))
           => ~is_dragging_path' /\ drag_ball' = None]_vars

\* C32, its case: a path drag is on in the editor over a scene one of whose
\* balls has a path, which an earlier drag and its pointer-up have left
C32_SecondDragOn ==
    /\ program = "main" /\ m_app_state = "STATE_SCENE_EDITOR"
    /\ is_dragging_path /\ drag_ball # None
    /\ \E i \in 1..Len(scene.balls) : scene.balls[i].path # None

\* C33: in every reachable state of the gemini_output.py App, app_state
\* being EDITOR or SIMULATION implies current_scene is not None, so the save,
\* hit-test, placement and update operations never act on a missing scene.
C33_SceneOpenInEditorAndSimulation ==
    (program = "gemini_output" /\ app_state \in {"EDITOR", "SIMULATION"})
        => current_scene # None

\* C33, its case: the simulation runs on a scene that Load Scene has read
\* from the scene file
C33_SimulationOfLoadedScene ==
    /\ program = "gemini_output" /\ pc = "simulation"
    /\ app_state = "SIMULATION"
    /\ current_scene # None /\ current_scene.balls # <<>>
    /\ file # MissingFile

\* C37: in every reachable state of the main.py editor, no two distinct
\* balls of the scene have the same position: a click that adds a ball never
\* places it at snap(p) equal to the position of an existing ball.
C37_NoTwoBallsAtOnePosition ==
    program = "main" =>
        \A i, j \in 1..Len(scene.balls) :
            i # j => scene.balls[i].position # scene.balls[j].position

\* App.run has ended, by `while self.running` or by an exception
RunEnded == pc \in {"exit", "crash"}

\* the app state of gemini_output.py never moves back while the run lasts
StateMovesForward ==
    [][(program = "gemini_output" /\ ~RunEnded) =>
          /\ app_state = "SIMULATION" => app_state' = "SIMULATION"
          /\ app_state = "EDITOR" => app_state' # "STARTUP_MENU"]_vars

\* C38: in the gemini_output.py App, the app state only moves forward
\* STARTUP_MENU -> EDITOR -> SIMULATION: once app_state is SIMULATION no
\* input event returns it to EDITOR or STARTUP_MENU, and once it is EDITOR it
\* never returns to STARTUP_MENU; only a quit event ends the run.
C38_ForwardUntilQuit ==
    /\ StateMovesForward
    /\ [][(program = "gemini_output" /\ ~RunEnded /\ RunEnded')
           => ~running]_vars

\* C34: in every reachable state of the main.py app, app_state being
\* STATE_SCENE_EDITOR implies 100 <= scene.width <= 3840 and
\* 100 <= scene.height <= 2160: the editor is entered only through
\* validate_and_create_scene with both dimensions valid.
C34_EditorSceneSizeInRange ==
    CreatedSceneOpen =>
        /\ 100 <= scene.width /\ scene.width <= 3840
        /\ 100 <= scene.height /\ scene.height <= 2160

\* C34, its case: the editor is open on a scene whose width and height were
\* typed into the inputs
C34_TypedSizeAccepted ==
    /\ CreatedSceneOpen
    /\ scene.width # DEFAULT_WIDTH
    /\ scene.height # DEFAULT_HEIGHT

\* the attributes menu is open
AttributesOpen ==
    program = "main" /\ m_app_state = "STATE_SCENE_ATTRIBUTES"

\* C35: when validate_and_create_scene finds any invalid input (width or
\* height not an integer in range, or a non-integer color field of the
\* active color space), the app stays in STATE_SCENE_ATTRIBUTES, the current
\* scene object is unchanged, and each invalid width/height input carries an
\* error message while each valid one has none.
C35_InvalidInputKeepsMenuAndMarks ==
    [][(/\ AttributesOpen
        /\ ~is_valid(attr_inputs, attr_toggles.active_option)
        /\ MainAttrCreateScene)
       => /\ m_app_state' = "STATE_SCENE_ATTRIBUTES"
          /\ scene' = scene
          /\ (attr_inputs'.width.error_message # NoMessage)
                <=> ~width_ok(attr_inputs.width.text)
          /\ (attr_inputs'.height.error_message # NoMessage)
                <=> ~height_ok(attr_inputs.height.text)]_vars

\* C35, its case: the attributes menu after a refused Create Scene: the
\* width input carries a message and its text is out of range, the height
\* input carries none
C35_WidthMarkedHeightNot ==
    /\ AttributesOpen
    /\ attr_inputs.width.error_message # NoMessage
    /\ int_of(attr_inputs.width.text).exc = "none"
    /\ attr_inputs.height.error_message = NoMessage

\* the colour space a colour input belongs to
SpaceOf(k) ==
    CASE k \in {"rgb_r", "rgb_g", "rgb_b"} -> "RGB"
      [] k \in {"hsla_h", "hsla_s", "hsla_l"} -> "HSLA"
      [] k \in {"oklab_l", "oklab_a", "oklab_b"} -> "oklab"

\* C36: in every reachable state of the scene-attributes menu, the enabled
\* color inputs are exactly those of the active color space (rgb_*, hsla_*
\* or oklab_*), and no disabled TextInput is active (is_active implies
\* is_enabled), whatever sequence of clicks, toggles and key presses is
\* delivered.
C36_EnabledInputsFollowToggle ==
    AttributesOpen =>
        /\ \A k \in DOMAIN attr_inputs \ {"width", "height"} :
              attr_inputs[k].is_enabled
                  <=> SpaceOf(k) = attr_toggles.active_option
        /\ \A k \in DOMAIN attr_inputs :
              attr_inputs[k].is_active => attr_inputs[k].is_enabled

\* C36, its case: the RGB input was edited while RGB was active, and HSLA
\* has been made active since
C36_ToggledAwayFromEditedInput ==
    /\ AttributesOpen
    /\ attr_toggles.active_option = "HSLA"
    /\ attr_inputs.rgb_r.text # <<"3", "4">>
    /\ ~attr_inputs.rgb_r.is_enabled

====
